---------------------------- MODULE Spec2Model ----------------------------
(***************************************************************************)
(* A model of the DogPark knowledge-graph hub:                             *)
(*   - NodeEdgeBuilder.merge_source  (hub/databuild/node_edge_builder.py)  *)
(*   - node_edge_merger_worker       (hub/databuild/node_edge_builder.py)  *)
(*   - RTXKG2Indexer.do_index        (hub/dataindex/indexer.py)            *)
(* Both orchestrators are asyncio coroutines: they run atomically from one *)
(* await to the next, and job completions and done-callbacks run only      *)
(* while the coroutine is suspended at an await.                           *)
(***************************************************************************)
EXTENDS Integers, Sequences, FiniteSets, TLC

\* ------------------------------------------------------------------ bounds
\* Largest source collection explored together with failing jobs.
MaxTotal == 3
\* Largest source collection explored with a pool whose jobs all succeed.
MaxSourceIds == 21
\* Longest explicit id list handed to an orchestrator.
MaxIds == 3
\* Batch sizes explored are 1..MaxBatch and 100 * (1..MaxBatch).
MaxBatch == 2
\* Number of jobs the worker pool runs at the same time.
PoolSize == 2

VARIABLES
    \* ---- NodeEdgeBuilder.merge_source
    mg_pc,          \* position of the coroutine
    mg_total,       \* self.source_backend[src_name].count()
    mg_batch_size,  \* batch_size
    mg_ids,         \* ids argument ([given |-> FALSE] is None)
    mg_query,       \* _query ("none" is a falsy query)
    mg_kinds,       \* results the pool's jobs can end with
    mg_root_sources, \* defined_root_sources
    mg_id_provider, \* id_provider, the super-batches not yet consumed
    mg_consumed,    \* the super-batches the outer for loop has taken
    mg_chunks,      \* iter_n(big_doc_ids, batch_size), chunks not yet taken
    mg_doc_ids,     \* doc_ids of the current iteration
    mg_cnt,         \* cnt
    mg_bnum,        \* bnum
    mg_got_error,   \* got_error
    mg_jobs,        \* jobs, with each future's state
    mg_ready,       \* done-callbacks scheduled on the event loop (FIFO)
    mg_out,         \* what merge_source returned or raised
    \* ---- RTXKG2Indexer.do_index
    ix_pc,          \* position of the coroutine
    ix_count,       \* collection.count() of the edge collection
    ix_batch_size,  \* batch_size
    ix_ids,         \* ids argument ([given |-> FALSE] is None)
    ix_total,       \* total
    ix_id_provider, \* id_provider, the id batches not yet consumed
    ix_scheduled,   \* schedule.scheduled
    ix_finished,    \* schedule.finished
    ix_batch,       \* batch_num and ids of the current iteration
    ix_error,       \* error
    ix_jobs,        \* jobs, with each future's state
    ix_ready,       \* done-callbacks scheduled on the event loop (FIFO)
    ix_out,         \* what do_index returned or raised
    \* ---- node_edge_merger_worker
    wk_pc,          \* position in the worker
    wk_names,       \* names the module does not bind, bound by the host
    wk_ids,         \* ids
    wk_source,      \* _ids present in the source collection
    wk_dest,        \* the destination collection: _id -> stored document
    wk_cleaner,     \* whether a cleaner is given
    wk_upsert,      \* upsert
    wk_docs,        \* docs ([bound |-> FALSE] before its first assignment)
    wk_stored,      \* stored_docs
    wk_exc,         \* the exception caught by the handler
    wk_artifacts,   \* the pickle files written under the log name
    wk_out,         \* what the worker returned or raised
    \* ---- load_merged_edges over read_jsonl
    ld_pc,          \* position of load_merged_edges
    ld_nodes_file,  \* the records of nodes.jsonl, in file order
    ld_edges_file,  \* the records of edges.jsonl, in file order
    ld_index,       \* read_jsonl: index
    ld_rbuffer,     \* read_jsonl: buffer
    ld_ryield,      \* read_jsonl: records of `yield from buffer` not yet taken
    ld_reof,        \* read_jsonl: the file has been read to its end
    ld_read,        \* the records read_jsonl has yielded, for each file
    ld_nodes,       \* nodes, the reference dict
    ld_buffer,      \* load_merged_edges: buffer
    ld_out,         \* the documents load_merged_edges has yielded
    ld_exc,         \* the exception load_merged_edges ended with
    \* ---- remove_biolink_prefix and get_ancestors
    pp_target,      \* target of remove_biolink_prefix
    pp_results,     \* what successive calls of remove_biolink_prefix returned
    pp_cache,       \* cache of get_ancestors: phrase -> ancestors
    pp_lookups,     \* calls of biolink.get_ancestors, for each phrase
    pp_log,         \* the calls of get_ancestors: phrase and returned value
    \* ---- dispatch and RTXKG2IndexingTask
    tk_pc,          \* position in dispatch
    tk_batch,       \* ids, the batch handed to dispatch
    tk_edges,       \* the _ids present in the edge collection
    tk_ids,         \* self.ids
    tk_invalid_ids, \* self.invalid_ids
    tk_backend,     \* self.backend
    tk_queried,     \* the ids the edge collection was queried with
    tk_out,         \* what dispatch returned or raised
    \* ---- RTXKG2Indexer.__init__
    ct_pc,          \* position in __init__
    ct_collections, \* db.list_collection_names() of the target database
    ct_node_collection,
                    \* build_doc["build_config"]["node_collection"]
    ct_index_name,  \* index_name ([given |-> FALSE] is None)
    ct_node_build,  \* node_build
    ct_self,        \* the attributes of self assigned so far
    ct_out          \* how the construction ended

mgVars == <<mg_pc, mg_total, mg_batch_size, mg_ids, mg_query, mg_kinds,
            mg_root_sources, mg_id_provider, mg_consumed, mg_chunks,
            mg_doc_ids, mg_cnt, mg_bnum, mg_got_error, mg_jobs, mg_ready,
            mg_out>>

ixVars == <<ix_pc, ix_count, ix_batch_size, ix_ids, ix_total,
            ix_id_provider, ix_scheduled, ix_finished, ix_batch, ix_error,
            ix_jobs, ix_ready, ix_out>>

wkVars == <<wk_pc, wk_names, wk_ids, wk_source, wk_dest, wk_cleaner,
            wk_upsert, wk_docs, wk_stored, wk_exc, wk_artifacts, wk_out>>

ldVars == <<ld_pc, ld_nodes_file, ld_edges_file, ld_index, ld_rbuffer,
            ld_ryield, ld_reof, ld_read, ld_nodes, ld_buffer, ld_out, ld_exc>>

ppVars == <<pp_target, pp_results, pp_cache, pp_lookups, pp_log>>

tkVars == <<tk_pc, tk_batch, tk_edges, tk_ids, tk_invalid_ids, tk_backend,
            tk_queried, tk_out>>

ctVars == <<ct_pc, ct_collections, ct_node_collection, ct_index_name,
            ct_node_build, ct_self, ct_out>>

vars == <<mgVars, ixVars, wkVars, ldVars, ppVars, tkVars, ctVars>>

\* What each component leaves alone.
NotMg == <<ixVars, wkVars, ldVars, ppVars, tkVars, ctVars>>
NotIx == <<mgVars, wkVars, ldVars, ppVars, tkVars, ctVars>>
NotWk == <<mgVars, ixVars, ldVars, ppVars, tkVars, ctVars>>
NotLd == <<mgVars, ixVars, wkVars, ppVars, tkVars, ctVars>>
NotPp == <<mgVars, ixVars, wkVars, ldVars, tkVars, ctVars>>
NotTk == <<mgVars, ixVars, wkVars, ldVars, ppVars, ctVars>>
NotCt == <<mgVars, ixVars, wkVars, ldVars, ppVars, tkVars>>

\* ----------------------------------------------------------------- helpers
Min(a, b) == IF a < b THEN a ELSE b

\* math.ceil(a / b) for a >= 0, b > 0
Ceil(a, b) == (a + b - 1) \div b

RECURSIVE Concat(_)
Concat(ss) == IF ss = <<>> THEN <<>> ELSE Head(ss) \o Concat(Tail(ss))

RECURSIVE SumLen(_)
SumLen(ss) == IF ss = <<>> THEN 0 ELSE Len(Head(ss)) + SumLen(Tail(ss))

\* biothings.utils.common.iter_n: the chunks tuple(islice(it, n)) until one
\* is empty; with n = 0 the first chunk is empty and nothing is yielded.
RECURSIVE iter_n(_, _)
iter_n(s, n) ==
    IF n = 0 \/ s = <<>> THEN <<>>
    ELSE <<SubSeq(s, 1, Min(n, Len(s)))>>
         \o iter_n(SubSeq(s, Min(n, Len(s)) + 1, Len(s)), n)

\* The _ids of a collection of `total` documents, in the store's order.
CollectionIds(total) == [i \in 1..total |-> i]

\* Whether the document with this _id satisfies the query filter.
Matches(query, id) == query = "none" \/ id % 2 = 1

\* biothings.utils.mongo.id_feeder: every _id, in lists of batch_size.
id_feeder(total, batch_size) == iter_n(CollectionIds(total), batch_size)

\* biothings.utils.mongo.doc_feeder(query=, step=, inbatch=True) mapped to
\* the _id of each document: the matching _ids, in lists of step.
doc_feeder_ids(total, query, step) ==
    iter_n(SelectSeq(CollectionIds(total), LAMBDA i : Matches(query, i)), step)

None == [given |-> FALSE, list |-> <<>>]
Given(l) == [given |-> TRUE, list |-> l]
\* Python truth of an optional list
Truthy(ids) == ids.given /\ ids.list # <<>>

\* ------------------------------------------------------- merge_source
NoError == [kind |-> "False"]
Pending == [kind |-> "pending"]

\* The results a job of the pool can end with, for a batch of n ids: an
\* integer count (n documents written, or none in update-only mode), an
\* exception, None, or a value that is not an integer.
JobResult(kind, n) ==
    CASE kind = "written" -> [kind |-> "int", val |-> n]
      [] kind = "nothing" -> [kind |-> "int", val |-> 0]
      [] OTHER -> [kind |-> kind]

AllKinds == {"written", "nothing", "exc", "None", "text"}

\* Mutant: the super-batch is not a multiple of batch_size.
IdBatchSize_off(batch_size) == batch_size * 10 + 1

\* id_batch_size = batch_size * 10
IdBatchSize(batch_size) == batch_size * 10

\* Mutant: with a query filter the ids still come from the id cache.
IdProvider_cache(ids, query, total, batch_size) ==
    IF Truthy(ids)
    THEN iter_n(ids.list, batch_size \div 100)
    ELSE id_feeder(total, IdBatchSize(batch_size))

\* The id_provider that reaches the for loop.
IdProvider(ids, query, total, batch_size) ==
    IF query # "none" /\ ~ids.given
    THEN doc_feeder_ids(total, query, batch_size)
    ELSE IF Truthy(ids)
         THEN iter_n(ids.list, batch_size \div 100)
         ELSE id_feeder(total, IdBatchSize(batch_size))

\* Mutant: cnt counts the batches, not their ids.
CountAfter_batches(cnt, doc_ids) == cnt + 1

\* cnt += len(doc_ids)
CountAfter(cnt, doc_ids) == cnt + Len(doc_ids)

\* Mutant: the callback flags only a None result.
batch_merged_none(got_error, result, batch_num) ==
    IF result.kind = "None" THEN [kind |-> "batch", num |-> batch_num]
    ELSE got_error

\* batch_merged(f, batch_num): the value of got_error after the callback.
\* f.result() re-raises the job's exception inside the callback, which the
\* event loop logs and drops: got_error is left as it was.
batch_merged(got_error, result, batch_num) ==
    IF result.kind = "exc" THEN got_error
    ELSE IF result.kind # "int" THEN [kind |-> "batch", num |-> batch_num]
    ELSE got_error

\* done(f) on the gathered results: the value of got_error after it.
done(got_error, results) ==
    IF \E i \in 1..Len(results) : results[i].kind = "None"
    THEN [kind |-> "some"]
    ELSE got_error

\* The event loop runs the callbacks scheduled in one iteration by the end
\* of the next one, and a coroutine resumes at most once per iteration: a
\* callback stays pending across at most one resumption of the coroutine.
\* An entry of the ready queue is old once the coroutine has resumed.
Fresh(ready) == \A i \in 1..Len(ready) : ~ready[i].old
Aged(ready) == [i \in 1..Len(ready) |-> [ready[i] EXCEPT !.old = TRUE]]

\* do_index not called.
IxIdle ==
    /\ ix_pc = "idle"
    /\ ix_count = 0
    /\ ix_batch_size = 1
    /\ ix_ids = None
    /\ ix_total = 0
    /\ ix_id_provider = <<>>
    /\ ix_scheduled = 0
    /\ ix_finished = 0
    /\ ix_batch = [num |-> 0, ids |-> <<>>]
    /\ ix_error = NoError
    /\ ix_jobs = <<>>
    /\ ix_ready = <<>>
    /\ ix_out = [kind |-> "running"]

\* load_merged_edges not called.
LdIdle ==
    /\ ld_pc = "idle"
    /\ ld_nodes_file = <<>>
    /\ ld_edges_file = <<>>
    /\ ld_index = 0
    /\ ld_rbuffer = <<>>
    /\ ld_ryield = <<>>
    /\ ld_reof = FALSE
    /\ ld_read = [nodes |-> <<>>, edges |-> <<>>]
    /\ ld_nodes = <<>>
    /\ ld_buffer = <<>>
    /\ ld_out = <<>>
    /\ ld_exc = NoError

\* remove_biolink_prefix and get_ancestors not called.
PpIdle ==
    /\ pp_target = [kind |-> "str", text |-> <<>>]
    /\ pp_results = <<>>
    /\ pp_cache = <<>>
    /\ pp_lookups = <<>>
    /\ pp_log = <<>>

\* dispatch not called.
TkIdle ==
    /\ tk_pc = "idle"
    /\ tk_batch = <<>>
    /\ tk_edges = {}
    /\ tk_ids = <<>>
    /\ tk_invalid_ids = <<>>
    /\ tk_backend = [bound |-> FALSE]
    /\ tk_queried = None
    /\ tk_out = [kind |-> "running"]

\* RTXKG2Indexer not constructed.
CtIdle ==
    /\ ct_pc = "idle"
    /\ ct_collections = {}
    /\ ct_node_collection = ""
    /\ ct_index_name = [given |-> FALSE]
    /\ ct_node_build = [bound |-> FALSE]
    /\ ct_self = {}
    /\ ct_out = [kind |-> "running"]

\* node_edge_merger_worker not called.
WkIdle ==
    /\ wk_pc = "idle"
    /\ wk_names = {}
    /\ wk_ids = <<>>
    /\ wk_source = {}
    /\ wk_dest = <<>>
    /\ wk_cleaner = FALSE
    /\ wk_upsert = FALSE
    /\ wk_docs = [bound |-> FALSE]
    /\ wk_stored = <<>>
    /\ wk_exc = NoError
    /\ wk_artifacts = {}
    /\ wk_out = [kind |-> "running"]

\* The source merge_source is called for, and another source of the build.
src_name == "src"
Sources == {src_name, "other"}

\* Mutant: a source outside the configured root sources upserts too.
Upsert_always(defined_root_sources, src) == TRUE

\* lines 45-46: upsert = not defined_root_sources or src_name in
\* defined_root_sources; get_root_document_sources gives the configured
\* list, empty when none is configured.
Upsert(defined_root_sources, src) ==
    defined_root_sources = {} \/ src \in defined_root_sources

MgRunning == { j \in 1..Len(mg_jobs) : mg_jobs[j].state = "running" }
MgSuspended == mg_pc \in {"sleep", "defer", "await"}
MgTerminal == mg_pc \in {"returned", "raised"}

MgInputs(totals, sizes, idlists, queries, kinds, roots) ==
    /\ mg_total \in totals
    /\ mg_batch_size \in sizes
    /\ mg_ids \in idlists
    /\ mg_query \in queries
    /\ mg_kinds = kinds
    /\ mg_root_sources \in roots
    /\ mg_pc = "start"
    /\ mg_id_provider = <<>>
    /\ mg_consumed = <<>>
    /\ mg_chunks = <<>>
    /\ mg_doc_ids = <<>>
    /\ mg_cnt = 0
    /\ mg_bnum = 1
    /\ mg_got_error = NoError
    /\ mg_jobs = <<>>
    /\ mg_ready = <<>>
    /\ mg_out = [kind |-> "running"]

\* line 179: the parameters of node_edge_merger_worker.
WorkerParams ==
    <<"col_name", "dest_name", "ids", "mapper", "cleaner", "upsert">>

\* lines 133-144: the positional arguments the partial binds to the worker.
BoundArgs ==
    <<"name", "target_name", "doc_ids", "mapper", "doc_cleaner", "upsert",
      "merger", "bnum", "merger_kwargs">>

\* The results a job can end with when the pool calls the worker with
\* `args` and every store operation succeeds. A call with more or fewer
\* positional arguments than the worker has parameters raises TypeError
\* before the worker's body runs; the body raises NameError unless the
\* names it reads without binding them are bound (`names`), and otherwise
\* returns the count of the destination's update.
CallOutcomes(params, args, names) ==
    IF Len(args) # Len(params) THEN {"exc"}
    ELSE IF "get_src_db" \notin names THEN {"exc"}
    ELSE {"written", "nothing"}

ExplicitIds == { Given([i \in 1..k |-> k + 1 - i]) : k \in 0..MaxIds }
BatchSizes == (1..MaxBatch) \cup { 100 * k : k \in 1..MaxBatch }

MgInit ==
    /\ MgInputs(0..MaxTotal, BatchSizes, {None} \cup ExplicitIds,
                {"none", "odd"}, AllKinds, {{}})
    /\ IxIdle
    /\ WkIdle
    /\ LdIdle
    /\ PpIdle
    /\ TkIdle
    /\ CtIdle

\* The same program with a large source, the two largest batch sizes, and
\* a pool whose jobs all succeed.
MgInitLarge ==
    /\ MgInputs(0..MaxSourceIds, (MaxBatch - 1)..MaxBatch, {None},
                {"none", "odd"}, {"written"}, {{}})
    /\ IxIdle
    /\ WkIdle
    /\ LdIdle
    /\ PpIdle
    /\ TkIdle
    /\ CtIdle

\* Every root-document-sources configuration, with jobs that all succeed.
MgInitPolicy ==
    /\ MgInputs(0..MaxTotal, 1..MaxBatch, {None} \cup ExplicitIds,
                {"none", "odd"}, {"written", "nothing"}, SUBSET Sources)
    /\ IxIdle
    /\ WkIdle
    /\ LdIdle
    /\ PpIdle
    /\ TkIdle
    /\ CtIdle

\* The program as it stands: each job calls the worker with the arguments
\* merge_source binds, the module binds none of the names the worker reads
\* as globals, and every store operation succeeds, on a source that is
\* not empty.
MgInitBound ==
    /\ MgInputs(1..MaxTotal, BatchSizes, {None} \cup ExplicitIds,
                {"none", "odd"}, CallOutcomes(WorkerParams, BoundArgs, {}),
                {{}})
    /\ IxIdle
    /\ WkIdle
    /\ LdIdle
    /\ PpIdle
    /\ TkIdle
    /\ CtIdle

\* lines 36-112: up to the for loop
MgStart ==
    /\ mg_pc = "start"
    /\ mg_id_provider' =
           IdProvider(mg_ids, mg_query, mg_total, mg_batch_size)
    /\ mg_pc' = "for"
    /\ UNCHANGED NotMg
    /\ UNCHANGED <<mg_total, mg_batch_size, mg_ids, mg_query, mg_kinds,
                   mg_root_sources,
                   mg_consumed, mg_chunks, mg_doc_ids, mg_cnt, mg_bnum,
                   mg_got_error, mg_jobs, mg_ready, mg_out>>

\* lines 113-117: the next doc_ids of the nested for loops, up to the
\* sleep; or, with both exhausted, lines 160-172 up to `await tasks`.
MgFor ==
    /\ mg_pc = "for"
    /\ IF mg_chunks = <<>> /\ mg_id_provider = <<>>
       THEN /\ mg_pc' = "await"
            /\ UNCHANGED <<mg_id_provider, mg_consumed, mg_chunks,
                           mg_doc_ids>>
       ELSE LET fresh == mg_chunks = <<>>
                cs == IF fresh
                      THEN iter_n(Head(mg_id_provider), mg_batch_size)
                      ELSE mg_chunks
            IN /\ mg_doc_ids' = Head(cs)
               /\ mg_chunks' = Tail(cs)
               /\ mg_id_provider' =
                      IF fresh THEN Tail(mg_id_provider) ELSE mg_id_provider
               /\ mg_consumed' =
                      IF fresh THEN Append(mg_consumed, Head(mg_id_provider))
                      ELSE mg_consumed
               /\ mg_pc' = "sleep"
    /\ UNCHANGED NotMg
    /\ UNCHANGED <<mg_total, mg_batch_size, mg_ids, mg_query, mg_kinds,
                   mg_root_sources,
                   mg_cnt, mg_bnum, mg_got_error, mg_jobs, mg_ready, mg_out>>

\* lines 118-131: after the sleep, up to the await of defer_to_process.
\* cnt / total raises ZeroDivisionError on an empty source collection.
MgCreate ==
    /\ mg_pc = "sleep"
    /\ Fresh(mg_ready)
    /\ mg_ready' = Aged(mg_ready)
    /\ mg_cnt' = CountAfter(mg_cnt, mg_doc_ids)
    /\ IF mg_total = 0
       THEN /\ mg_pc' = "raised"
            /\ mg_out' = [kind |-> "raise", exc |-> [kind |-> "ZeroDivisionError"]]
       ELSE /\ mg_pc' = "defer"
            /\ UNCHANGED mg_out
    /\ UNCHANGED NotMg
    /\ UNCHANGED <<mg_total, mg_batch_size, mg_ids, mg_query, mg_kinds,
                   mg_root_sources,
                   mg_id_provider, mg_consumed, mg_chunks, mg_doc_ids,
                   mg_bnum, mg_got_error, mg_jobs>>

\* lines 131-159: defer_to_process returns the job once the pool has a free
\* slot; the callback is attached, and got_error is checked.
MgDispatch ==
    /\ mg_pc = "defer"
    /\ Cardinality(MgRunning) < PoolSize
    /\ Fresh(mg_ready)
    /\ mg_ready' = Aged(mg_ready)
    /\ mg_jobs' = Append(mg_jobs, [ids |-> mg_doc_ids, num |-> mg_bnum,
                                   upsert |-> Upsert(mg_root_sources,
                                                     src_name),
                                   state |-> "running", result |-> Pending,
                                   cb |-> FALSE])
    /\ mg_bnum' = mg_bnum + 1
    /\ IF mg_got_error # NoError
       THEN /\ mg_pc' = "raised"
            /\ mg_out' = [kind |-> "raise", exc |-> mg_got_error]
       ELSE /\ mg_pc' = "for"
            /\ UNCHANGED mg_out
    /\ UNCHANGED NotMg
    /\ UNCHANGED <<mg_total, mg_batch_size, mg_ids, mg_query, mg_kinds,
                   mg_root_sources,
                   mg_id_provider, mg_consumed, mg_chunks, mg_doc_ids,
                   mg_cnt, mg_got_error>>

\* A job of the pool ends, while the coroutine is suspended: its future
\* becomes done and its done-callbacks are scheduled.
MgSettle(j) ==
    /\ MgSuspended
    /\ j \in MgRunning
    /\ \E kind \in mg_kinds :
         mg_jobs' = [mg_jobs EXCEPT ![j].state = "done",
                         ![j].result = JobResult(kind, Len(mg_jobs[j].ids))]
    /\ mg_ready' = Append(mg_ready, [job |-> j, old |-> FALSE])
    /\ UNCHANGED NotMg
    /\ UNCHANGED <<mg_pc, mg_total, mg_batch_size, mg_ids, mg_query,
                   mg_kinds, mg_root_sources, mg_id_provider, mg_consumed,
                   mg_chunks,
                   mg_doc_ids, mg_cnt, mg_bnum, mg_got_error, mg_out>>

\* lines 147-154: the event loop runs the next scheduled batch_merged.
MgCallback ==
    /\ MgSuspended
    /\ mg_ready # <<>>
    /\ LET j == Head(mg_ready).job
       IN /\ mg_got_error' =
                 batch_merged(mg_got_error, mg_jobs[j].result, mg_jobs[j].num)
          /\ mg_jobs' = [mg_jobs EXCEPT ![j].cb = TRUE]
    /\ mg_ready' = Tail(mg_ready)
    /\ UNCHANGED NotMg
    /\ UNCHANGED <<mg_pc, mg_total, mg_batch_size, mg_ids, mg_query,
                   mg_kinds, mg_root_sources, mg_id_provider, mg_consumed,
                   mg_chunks,
                   mg_doc_ids, mg_cnt, mg_bnum, mg_out>>

\* lines 161-176: asyncio.gather ends with the exception of a failed job as
\* soon as there is one, and with the list of results once all are done;
\* done(f) runs before the coroutine resumes.
MgResume ==
    /\ mg_pc = "await"
    /\ mg_ready = <<>>
    /\ LET failed == { j \in 1..Len(mg_jobs) : mg_jobs[j].result.kind = "exc" }
       IN IF failed # {}
          THEN /\ \E j \in failed :
                    mg_out' = [kind |-> "raise",
                               exc |-> [kind |-> "job", num |-> mg_jobs[j].num]]
               /\ mg_pc' = "raised"
               /\ UNCHANGED mg_got_error
          ELSE /\ MgRunning = {}
               /\ LET results == [j \in 1..Len(mg_jobs) |-> mg_jobs[j].result]
                      err == done(mg_got_error, results)
                  IN /\ mg_got_error' = err
                     /\ IF err # NoError
                        THEN /\ mg_pc' = "raised"
                             /\ mg_out' = [kind |-> "raise", exc |-> err]
                        ELSE /\ mg_pc' = "returned"
                             /\ mg_out' = [kind |-> "return", count |-> mg_cnt]
    /\ UNCHANGED NotMg
    /\ UNCHANGED <<mg_total, mg_batch_size, mg_ids, mg_query, mg_kinds,
                   mg_root_sources,
                   mg_id_provider, mg_consumed, mg_chunks, mg_doc_ids,
                   mg_cnt, mg_bnum, mg_jobs, mg_ready>>

MgNext ==
    \/ MgStart
    \/ MgFor
    \/ MgCreate
    \/ MgDispatch
    \/ \E j \in 1..Len(mg_jobs) : MgSettle(j)
    \/ MgCallback
    \/ MgResume

SpecMerge == MgInit /\ [][MgNext]_vars
SpecMergeLarge == MgInitLarge /\ [][MgNext]_vars
SpecMergePolicy == MgInitPolicy /\ [][MgNext]_vars
\* The pool runs every job to its end and the event loop runs every
\* scheduled callback and resumes the coroutine when what it awaits is
\* ready: a step that can be taken is eventually taken.
SpecMergeBound == MgInitBound /\ [][MgNext]_vars /\ WF_vars(MgNext)

Spec == SpecMerge
\* ------------------------------------------------- merge_source: claims
MgBatches == [j \in 1..Len(mg_jobs) |-> mg_jobs[j].ids]
MgFailedJobs == { j \in 1..Len(mg_jobs) :
                    mg_jobs[j].result.kind \in {"exc", "None", "text"} }
MgCounted == { j \in 1..Len(mg_jobs) : mg_jobs[j].result.kind = "int" }

\* C1: merge_source never reports partial success. Whenever a dispatched
\* job failed (it raised, returned None, or returned a non-integer), in
\* whatever order the jobs completed, merge_source does not return a
\* {source_name: count} result: it can always go on until it ends, and it
\* ends by raising.
C1_NoPartialSuccess ==
    MgFailedJobs # {} =>
        /\ mg_out.kind # "return"
        /\ MgTerminal \/ ENABLED MgNext
        /\ MgTerminal => mg_out.kind = "raise"

\* C1 witness: merge_source has raised although some jobs succeeded.
C1_Witness ==
    /\ mg_pc = "raised"
    /\ MgFailedJobs # {}
    /\ MgCounted # {}

\* C4 (as claimed): with an explicit non-empty id list and no failed job,
\* the dispatched batches partition the list: their concatenation is the
\* list, none is larger than batch_size, and there are
\* ceil(|ids| / batch_size) of them.
C4_ExplicitIdsPartition ==
    (mg_pc = "returned" /\ Truthy(mg_ids) /\ MgFailedJobs = {}) =>
        /\ Concat(MgBatches) = mg_ids.list
        /\ \A j \in 1..Len(mg_jobs) : Len(mg_jobs[j].ids) <= mg_batch_size
        /\ Len(mg_jobs) = Ceil(Len(mg_ids.list), mg_batch_size)

\* C5: without explicit ids (and without a query filter) the source ids are
\* taken in super-batches of 10 * batch_size and dispatched in exactly
\* ceil(total / batch_size) batches, every batch but the last of exactly
\* batch_size ids, every source id in exactly one batch, also when several
\* super-batches are consumed.
C5_SuperBatchPartition ==
    (mg_pc = "returned" /\ ~mg_ids.given /\ mg_query = "none") =>
        /\ Len(mg_jobs) = Ceil(mg_total, mg_batch_size)
        /\ \A j \in 1..(Len(mg_jobs) - 1) :
               Len(mg_jobs[j].ids) = mg_batch_size
        /\ Concat(MgBatches) = CollectionIds(mg_total)
        /\ Concat(mg_consumed) = CollectionIds(mg_total)
        /\ \A k \in 1..Len(mg_consumed) :
               /\ Len(mg_consumed[k]) <= 10 * mg_batch_size
               /\ k < Len(mg_consumed) =>
                      Len(mg_consumed[k]) = 10 * mg_batch_size

\* C5 witness: a run that consumed several super-batches and whose last
\* batch is shorter than batch_size.
C5_Witness ==
    /\ mg_pc = "returned"
    /\ ~mg_ids.given /\ mg_query = "none"
    /\ Len(mg_consumed) >= 2
    /\ Len(mg_jobs[Len(mg_jobs)].ids) < mg_batch_size

\* C6: the count merge_source returns is the number of ids in all the
\* batches it dispatched, whatever integer counts the workers returned.
C6_CountIsInputIds ==
    mg_out.kind = "return" => mg_out.count = SumLen(MgBatches)

\* C6 witness: merge_source returned a count larger than what the workers
\* reported as written.
C6_Witness ==
    /\ mg_out.kind = "return"
    /\ Len(mg_jobs) >= 2
    /\ \E j \in 1..Len(mg_jobs) :
           mg_jobs[j].result = [kind |-> "int", val |-> 0] /\ Len(mg_jobs[j].ids) = 2

\* C7 (as claimed): once a job has completed with a failure (an exception
\* or a non-integer result) and its callback has run, no further job is
\* dispatched.
C7_NoDispatchAfterFailure ==
    [][(\E j \in MgFailedJobs : mg_jobs[j].cb) => Len(mg_jobs') = Len(mg_jobs)]_vars

\* C12: merge_source passes upsert = true to every worker job of a source
\* unless a root-document-sources set is configured, is non-empty and does
\* not contain that source, in which case it passes upsert = false
\* (update-only) to every job of that source.
C12_UpsertPolicy ==
    \A j \in 1..Len(mg_jobs) :
        mg_jobs[j].upsert =
            ~(mg_root_sources # {} /\ src_name \notin mg_root_sources)

\* C12 witness: two jobs were dispatched update-only, for a source outside
\* a non-empty set of root sources.
C12_Witness ==
    /\ Len(mg_jobs) >= 2
    /\ mg_root_sources = {"other"}
    /\ \A j \in 1..Len(mg_jobs) : ~mg_jobs[j].upsert

\* The source _ids that satisfy the query filter, in the store's order.
MgFiltered ==
    SelectSeq(CollectionIds(mg_total), LAMBDA i : Matches(mg_query, i))

\* C21: when a query filter is active and merge_source is called with no
\* explicit ids, the ids come from the filtered enumeration: every id taken
\* from the id provider and every dispatched id satisfies the filter, and
\* once every batch is dispatched each source id satisfying the filter is
\* in exactly one batch. The unfiltered enumeration is never consumed.
C21_FilteredEnumeration ==
    (mg_query # "none" /\ ~mg_ids.given) =>
        /\ \A k \in 1..Len(mg_consumed) : \A i \in 1..Len(mg_consumed[k]) :
               Matches(mg_query, mg_consumed[k][i])
        /\ \A j \in 1..Len(mg_jobs) : \A i \in 1..Len(mg_jobs[j].ids) :
               Matches(mg_query, mg_jobs[j].ids[i])
        /\ mg_pc \in {"await", "returned"} =>
               /\ Concat(MgBatches) = MgFiltered
               /\ Concat(mg_consumed) = MgFiltered

\* C21 witness: a filtered run over a source that also holds ids the
\* filter rejects has returned after dispatching several batches.
C21_Witness ==
    /\ mg_pc = "returned"
    /\ mg_query # "none" /\ ~mg_ids.given
    /\ Len(mg_jobs) >= 2
    /\ Len(MgFiltered) < mg_total

\* C24: in a run where every source and destination store operation
\* succeeds, every worker job merge_source dispatches, called with exactly
\* the arguments merge_source binds to it, completes with an integer count,
\* and merge_source eventually returns its {source_name: count} result
\* instead of raising.
C24_JobsCompleteAndReturn ==
    /\ [](\A j \in 1..Len(mg_jobs) :
             mg_jobs[j].state = "done" => mg_jobs[j].result.kind = "int")
    /\ [](mg_out.kind # "raise")
    /\ <>(mg_out.kind = "return")

\* ------------------------------------------------------------ do_index
\* merge_source not called.
MgIdle ==
    /\ mg_pc = "idle"
    /\ mg_total = 0
    /\ mg_batch_size = 1
    /\ mg_ids = None
    /\ mg_query = "none"
    /\ mg_kinds = {}
    /\ mg_root_sources = {}
    /\ mg_id_provider = <<>>
    /\ mg_consumed = <<>>
    /\ mg_chunks = <<>>
    /\ mg_doc_ids = <<>>
    /\ mg_cnt = 0
    /\ mg_bnum = 1
    /\ mg_got_error = NoError
    /\ mg_jobs = <<>>
    /\ mg_ready = <<>>
    /\ mg_out = [kind |-> "running"]

\* The results a Batch Index Worker job can end with, for a batch of n ids:
\* a count (of every id, of one id less, of one id more) or an exception.
IndexResult(kind, n) ==
    CASE kind = "indexed" -> [kind |-> "int", val |-> n]
      [] kind = "lost" -> [kind |-> "int", val |-> n - 1]
      [] kind = "extra" -> [kind |-> "int", val |-> n + 1]
      [] OTHER -> [kind |-> "exc"]

IndexKinds == {"indexed", "lost", "extra", "exc"}

\* Mutant: the scheduled cursor is not capped at total.
ScheduleNext_uncapped(scheduled, total, batch_size) == scheduled + batch_size

\* Schedule.__next__ (biothings.hub.dataindex.indexer_schedule): the
\* scheduled cursor advances by batch_size, capped at total.
ScheduleNext(scheduled, total, batch_size) ==
    Min(scheduled + batch_size, total)

\* Schedule._batch: the number of the batch just scheduled.
ScheduleBatch(scheduled, batch_size) == Ceil(scheduled, batch_size)

\* Schedule.completed(): raises SchedulerMismatchError unless this holds.
ScheduleCompleted(finished, total) == finished = total

\* lines 108-123: id_provider
IndexIdProvider(ids, count, batch_size) ==
    IF Truthy(ids) THEN iter_n(ids.list, batch_size)
    ELSE id_feeder(count, batch_size)

\* line 128: total = len(ids) if ids else collection.count()
IndexTotal(ids, count) == IF Truthy(ids) THEN Len(ids.list) ELSE count

\* Mutant: the callback assigns the count instead of adding it.
batch_finished_assign(finished, result) ==
    IF result.kind = "int" THEN result.val ELSE finished

\* Mutant: the callback counts the batch, not the count it returned.
batch_finished_batches(finished, result) ==
    IF result.kind = "int" THEN finished + 1 ELSE finished

\* batch_finished(future), try branch: schedule.finished += future.result()
batch_finished(finished, result) ==
    IF result.kind = "int" THEN finished + result.val ELSE finished

\* batch_finished(future), except branch: error = exc
batch_error(error, result, batch_num) ==
    IF result.kind = "exc" THEN [kind |-> "job", num |-> batch_num]
    ELSE error

\* Mutant: the check at the top of the loop never fires.
FailFast_never(error) == FALSE

\* line 145: isinstance(error, Exception)
FailFast(error) == error # NoError

\* Mutant: the fail-fast path raises without cancelling.
CancelJobs_none(jobs) == jobs

\* lines 146-148: job.cancel() for every job that is not done. A cancelled
\* future is done at once.
CancelJobs(jobs) ==
    [j \in 1..Len(jobs) |->
        IF jobs[j].state = "running"
        THEN [jobs[j] EXCEPT !.state = "cancelled",
                             !.result = [kind |-> "cancelled"]]
        ELSE jobs[j]]

IxRunning == { j \in 1..Len(ix_jobs) : ix_jobs[j].state = "running" }
IxSuspended == ix_pc \in {"sleep", "defer", "await"}
IxTerminal == ix_pc \in {"returned", "raised"}

IxInit ==
    /\ ix_count \in 0..MaxTotal
    /\ ix_batch_size \in 1..MaxBatch
    /\ ix_ids \in {None} \cup ExplicitIds
    /\ ix_pc = "start"
    /\ ix_total = 0
    /\ ix_id_provider = <<>>
    /\ ix_scheduled = 0
    /\ ix_finished = 0
    /\ ix_batch = [num |-> 0, ids |-> <<>>]
    /\ ix_error = NoError
    /\ ix_jobs = <<>>
    /\ ix_ready = <<>>
    /\ ix_out = [kind |-> "running"]
    /\ MgIdle
    /\ WkIdle
    /\ LdIdle
    /\ PpIdle
    /\ TkIdle
    /\ CtIdle

\* lines 103-137: up to the for loop
IxStart ==
    /\ ix_pc = "start"
    /\ ix_id_provider' = IndexIdProvider(ix_ids, ix_count, ix_batch_size)
    /\ ix_total' = IndexTotal(ix_ids, ix_count)
    /\ ix_pc' = "for"
    /\ UNCHANGED NotIx
    /\ UNCHANGED <<ix_count, ix_batch_size, ix_ids, ix_scheduled,
                   ix_finished, ix_batch, ix_error, ix_jobs, ix_ready, ix_out>>

\* lines 139-140: zip takes the next batch number of the schedule, then the
\* next id batch, up to the sleep; when either is exhausted, lines 168-169
\* up to the await of gather.
IxFor ==
    /\ ix_pc = "for"
    /\ IF ix_scheduled >= ix_total
       THEN /\ ix_pc' = "await"
            /\ UNCHANGED <<ix_scheduled, ix_id_provider, ix_batch>>
       ELSE /\ ix_scheduled' =
                   ScheduleNext(ix_scheduled, ix_total, ix_batch_size)
            /\ IF ix_id_provider = <<>>
               THEN /\ ix_pc' = "await"
                    /\ UNCHANGED <<ix_id_provider, ix_batch>>
               ELSE /\ ix_batch' =
                           [num |-> ScheduleBatch(ix_scheduled', ix_batch_size),
                            ids |-> Head(ix_id_provider)]
                    /\ ix_id_provider' = Tail(ix_id_provider)
                    /\ ix_pc' = "sleep"
    /\ UNCHANGED NotIx
    /\ UNCHANGED <<ix_count, ix_batch_size, ix_ids, ix_total, ix_finished,
                   ix_error, ix_jobs, ix_ready, ix_out>>

\* lines 145-155: after the sleep, the fail-fast check, up to the await of
\* defer_to_process.
IxCheck ==
    /\ ix_pc = "sleep"
    /\ Fresh(ix_ready)
    /\ IF FailFast(ix_error)
       THEN /\ ix_jobs' = CancelJobs(ix_jobs)
            /\ ix_ready' = Aged(ix_ready)
            /\ ix_pc' = "raised"
            /\ ix_out' = [kind |-> "raise", at |-> "check", exc |-> ix_error]
       ELSE /\ ix_pc' = "defer"
            /\ ix_ready' = Aged(ix_ready)
            /\ UNCHANGED <<ix_jobs, ix_out>>
    /\ UNCHANGED NotIx
    /\ UNCHANGED <<ix_count, ix_batch_size, ix_ids, ix_total, ix_id_provider,
                   ix_scheduled, ix_finished, ix_batch, ix_error>>

\* lines 155-166: defer_to_process returns the job once the pool has a free
\* slot; batch_finished is attached.
IxDispatch ==
    /\ ix_pc = "defer"
    /\ Cardinality(IxRunning) < PoolSize
    /\ Fresh(ix_ready)
    /\ ix_ready' = Aged(ix_ready)
    /\ ix_jobs' = Append(ix_jobs, [ids |-> ix_batch.ids, num |-> ix_batch.num,
                                   state |-> "running", result |-> Pending,
                                   cb |-> FALSE,
                                   after_error |-> ix_error # NoError])
    /\ ix_pc' = "for"
    /\ UNCHANGED NotIx
    /\ UNCHANGED <<ix_count, ix_batch_size, ix_ids, ix_total, ix_id_provider,
                   ix_scheduled, ix_finished, ix_batch, ix_error, ix_out>>

\* A job of the pool ends, while the coroutine is suspended.
IxSettle(j) ==
    /\ IxSuspended
    /\ j \in IxRunning
    /\ \E kind \in IndexKinds :
         ix_jobs' = [ix_jobs EXCEPT ![j].state = "done",
                         ![j].result = IndexResult(kind, Len(ix_jobs[j].ids))]
    /\ ix_ready' = Append(ix_ready, [job |-> j, old |-> FALSE])
    /\ UNCHANGED NotIx
    /\ UNCHANGED <<ix_pc, ix_count, ix_batch_size, ix_ids, ix_total,
                   ix_id_provider, ix_scheduled, ix_finished, ix_batch,
                   ix_error, ix_out>>

\* lines 131-137: the event loop runs the next scheduled batch_finished.
IxCallback ==
    /\ IxSuspended
    /\ ix_ready # <<>>
    /\ LET j == Head(ix_ready).job
       IN /\ ix_finished' = batch_finished(ix_finished, ix_jobs[j].result)
          /\ ix_error' = batch_error(ix_error, ix_jobs[j].result, ix_jobs[j].num)
          /\ ix_jobs' = [ix_jobs EXCEPT ![j].cb = TRUE]
    /\ ix_ready' = Tail(ix_ready)
    /\ UNCHANGED NotIx
    /\ UNCHANGED <<ix_pc, ix_count, ix_batch_size, ix_ids, ix_total,
                   ix_id_provider, ix_scheduled, ix_batch, ix_out>>

\* lines 169-183: gather ends with the exception of a failed job as soon as
\* there is one (the other jobs are left as they are), and with the results
\* once all are done; then schedule.completed() decides.
IxResume ==
    /\ ix_pc = "await"
    /\ ix_ready = <<>>
    /\ LET failed == { j \in 1..Len(ix_jobs) : ix_jobs[j].result.kind = "exc" }
       IN IF failed # {}
          THEN /\ \E j \in failed :
                    ix_out' = [kind |-> "raise", at |-> "gather",
                               exc |-> [kind |-> "job", num |-> ix_jobs[j].num]]
               /\ ix_pc' = "raised"
          ELSE /\ IxRunning = {}
               /\ IF ScheduleCompleted(ix_finished, ix_total)
                  THEN /\ ix_pc' = "returned"
                       /\ ix_out' = [kind |-> "return", count |-> ix_total]
                  ELSE /\ ix_pc' = "raised"
                       /\ ix_out' = [kind |-> "raise", at |-> "completed",
                                     exc |-> [kind |-> "SchedulerMismatchError"]]
    /\ UNCHANGED NotIx
    /\ UNCHANGED <<ix_count, ix_batch_size, ix_ids, ix_total, ix_id_provider,
                   ix_scheduled, ix_finished, ix_batch, ix_error, ix_jobs,
                   ix_ready>>

IxNext ==
    \/ IxStart
    \/ IxFor
    \/ IxCheck
    \/ IxDispatch
    \/ \E j \in 1..Len(ix_jobs) : IxSettle(j)
    \/ IxCallback
    \/ IxResume

SpecIndex == IxInit /\ [][IxNext]_vars

\* ----------------------------------------------------- do_index: claims
IxFailedJobs == { j \in 1..Len(ix_jobs) : ix_jobs[j].result.kind = "exc" }
IxAllSettled ==
    \A j \in 1..Len(ix_jobs) : ix_jobs[j].state \in {"done", "cancelled"}

RECURSIVE SumVal(_)
SumVal(jobs) ==
    IF jobs = <<>> THEN 0 ELSE Head(jobs).result.val + SumVal(Tail(jobs))

\* C2 (as claimed): when a job fails, do_index raises without returning a
\* count, and at the moment it raises every dispatched job is done or
\* cancelled, whether the failure is seen while scheduling or in the final
\* await.
C2_FailureLeavesNoJobRunning ==
    IxFailedJobs # {} =>
        /\ ix_out.kind # "return"
        /\ ix_pc = "raised" => IxAllSettled

\* C2 (amended): when a job fails, do_index raises without returning a
\* count; every dispatched job is done or cancelled at that moment when it
\* raises from the fail-fast check while batches are being scheduled, or
\* when only one batch was dispatched. (A failure seen in the final await
\* raises without cancelling the jobs still running.)
C2_FailFastLeavesNoJobRunning ==
    IxFailedJobs # {} =>
        /\ ix_out.kind # "return"
        /\ IxTerminal => ix_out.kind = "raise"
        /\ (ix_pc = "raised" /\ (ix_out.at = "check" \/ Len(ix_jobs) = 1))
               => IxAllSettled

\* C2 witness: the fail-fast check raised and cancelled a running job.
C2_Witness ==
    /\ ix_pc = "raised"
    /\ ix_out.at = "check"
    /\ IxFailedJobs # {}
    /\ \E j \in 1..Len(ix_jobs) : ix_jobs[j].state = "cancelled"

\* C3: do_index returns {count, created_at} only when every dispatched job
\* has settled and the counts they returned add up to total (the
\* Schedule's finished count equals its total); when all jobs settle
\* without error and their counts do not add up to total, it raises the
\* scheduler-mismatch error.
C3_ReturnOnlyWhenComplete ==
    /\ ix_out.kind = "return" =>
           /\ \A j \in 1..Len(ix_jobs) :
                  ix_jobs[j].result.kind = "int" /\ ix_jobs[j].cb
           /\ ix_finished = ix_total
           /\ SumVal(ix_jobs) = ix_total
           /\ ix_out.count = ix_total
    /\ (IxTerminal /\ \A j \in 1..Len(ix_jobs) : ix_jobs[j].result.kind = "int")
           => IF SumVal(ix_jobs) = ix_total
              THEN ix_out.kind = "return"
              ELSE /\ ix_out.kind = "raise"
                   /\ ix_out.exc = [kind |-> "SchedulerMismatchError"]

\* C3 witness: all jobs settled without error, one lost a document, and
\* do_index raised the mismatch.
C3_Witness ==
    /\ ix_pc = "raised"
    /\ Len(ix_jobs) >= 2
    /\ \A j \in 1..Len(ix_jobs) : ix_jobs[j].result.kind = "int"
    /\ SumVal(ix_jobs) < ix_total

\* C8 (as claimed): once a callback has recorded an exception in the error
\* sentinel, no further job is dispatched.
C8_NoDispatchAfterError ==
    [][ix_error # NoError => Len(ix_jobs') = Len(ix_jobs)]_vars

\* C8 (amended): a loop iteration whose check at the top finds the error
\* sentinel set dispatches nothing: it cancels every job that is not done
\* and raises the recorded error. A callback that records the exception
\* while the coroutine is suspended in defer_to_process, after that
\* check, does not stop the dispatch under way: at most one job, the last
\* one, is dispatched with the sentinel set.
C8_FailFastAtTopOfLoop ==
    /\ [](/\ \A j \in 1..Len(ix_jobs) :
                ix_jobs[j].after_error => j = Len(ix_jobs)
          /\ (ix_pc = "raised" /\ ix_out.at = "check") =>
                /\ ix_out.exc = ix_error
                /\ IxAllSettled)
    /\ [][(ix_pc = "sleep" /\ ix_error # NoError /\ ix_pc' # "sleep") =>
             /\ ix_pc' = "raised"
             /\ ix_out'.at = "check"
             /\ Len(ix_jobs') = Len(ix_jobs)]_vars

\* C8 witness: the check at the top of the loop raised after one job had
\* been dispatched with the sentinel set.
C8_Witness ==
    /\ ix_pc = "raised"
    /\ ix_out.at = "check"
    /\ \E j \in 1..Len(ix_jobs) : ix_jobs[j].after_error

\* The jobs whose callback has added a count to the Schedule.
IxAccounted ==
    SelectSeq(ix_jobs, LAMBDA job : job.cb /\ job.result.kind = "int")

\* C19: the outcome of do_index does not depend on the order in which the
\* jobs complete. Under every interleaving of completions and callbacks
\* with the dispatch loop, the Schedule's finished counter is the sum of the
\* counts of the jobs whose callback has run (none lost, none counted
\* twice) and the error sentinel is set exactly when a callback has seen
\* a failed job; do_index always goes on until it ends; when it ends with
\* every job succeeded, finished is the sum of all returned counts, and
\* when any job failed it ends by raising.
C19_OrderIndependentOutcome ==
    /\ ix_finished = SumVal(IxAccounted)
    /\ ix_error # NoError <=>
           \E j \in 1..Len(ix_jobs) :
               ix_jobs[j].cb /\ ix_jobs[j].result.kind = "exc"
    /\ IxTerminal \/ ENABLED IxNext
    /\ IxFailedJobs # {} => ix_out.kind # "return"
    /\ IxTerminal =>
           IF IxFailedJobs = {}
           THEN /\ \A j \in 1..Len(ix_jobs) : ix_jobs[j].cb
                /\ ix_finished = SumVal(ix_jobs)
           ELSE ix_out.kind = "raise"

\* C19 witness: with every batch dispatched, the second batch completed
\* and was counted before the first one, which has completed too and is
\* still to be counted.
C19_Witness ==
    /\ ix_pc = "await"
    /\ Len(ix_jobs) >= 2
    /\ ix_jobs[2].cb
    /\ ix_jobs[2].result.kind = "int"
    /\ ix_jobs[2].result.val > 0
    /\ ix_finished = ix_jobs[2].result.val
    /\ ix_jobs[1].state = "done"
    /\ ix_jobs[1].result.kind = "int"
    /\ ~ix_jobs[1].cb

\* The dispatch of do_index over the id list `list` of length `total`: the
\* jobs are numbered 1, 2, ... in dispatch order, the k-th job carries the
\* k-th batch of the list, the cursor stays within total, and once the loop
\* is exhausted ceil(total / batch_size) jobs have been dispatched.
IxDispatchedInOrder(list, total) ==
    /\ \A k \in 1..Len(ix_jobs) :
           /\ ix_jobs[k].num = k
           /\ k <= Len(iter_n(list, ix_batch_size))
           /\ ix_jobs[k].ids = iter_n(list, ix_batch_size)[k]
    /\ ix_scheduled <= total
    /\ (ix_pc \in {"await", "returned"} /\ IxFailedJobs = {}) =>
           Len(ix_jobs) = Ceil(total, ix_batch_size)

\* C22 (as claimed): in a run of do_index without failures the jobs are
\* dispatched one at a time in strictly increasing batch-number order, the
\* k-th job carrying the k-th id batch of the partition, and exactly
\* ceil(total / batch_size) jobs are dispatched, where total is the length
\* of the explicit id list if one is given and the edge collection's count
\* otherwise; the Schedule's cursor never exceeds total.
C22_DispatchInOrder ==
    /\ [](ix_pc \notin {"idle", "start"} =>
             IF ix_ids.given
             THEN IxDispatchedInOrder(ix_ids.list, Len(ix_ids.list))
             ELSE IxDispatchedInOrder(CollectionIds(ix_count), ix_count))
    /\ [][Len(ix_jobs') <= Len(ix_jobs) + 1]_vars

\* C22 (amended): the same, where total is the length of the explicit id
\* list if a non-empty one is given and the edge collection's count
\* otherwise: an empty id list is treated as no list, and the whole edge
\* collection is partitioned and dispatched.
C22_DispatchInOrderNonEmpty ==
    /\ [](ix_pc \notin {"idle", "start"} =>
             IF Truthy(ix_ids)
             THEN IxDispatchedInOrder(ix_ids.list, Len(ix_ids.list))
             ELSE IxDispatchedInOrder(CollectionIds(ix_count), ix_count))
    /\ [][Len(ix_jobs') <= Len(ix_jobs) + 1]_vars

\* C22 witness: do_index returned after dispatching several batches of an
\* explicit id list whose last batch is shorter than batch_size.
C22_Witness ==
    /\ ix_pc = "returned"
    /\ Truthy(ix_ids)
    /\ Len(ix_jobs) >= 2
    /\ ix_total % ix_batch_size # 0
    /\ ix_scheduled = ix_total

\* C23: the error do_index raises on its fail-fast path is the first batch
\* exception. Once a callback has recorded an exception in the sentinel, a
\* later failure never overwrites it, so that when several jobs fail
\* before the next check the sentinel still holds the exception of the job
\* whose callback ran first, and that is the exception the check raises.
\* (Stated while the dispatch loop is running, where a check is still to
\* come.)
C23_FirstErrorKept ==
    /\ [][(ix_error # NoError /\ ix_pc \in {"sleep", "defer"}) =>
             ix_error' = ix_error]_vars
    /\ []((ix_pc = "raised" /\ ix_out.at = "check") =>
              ix_out.exc = ix_error)

\* ---------------------------------------------- node_edge_merger_worker
\* Names the worker reads that are neither its parameters nor bound by the
\* module (lines 1-17): get_src_db (line 185), batch_num (line 208) and
\* merger (line 214). Each resolves only if the host process has put it
\* among the module's globals; as the module stands none is bound.
UnboundNames == {"get_src_db", "batch_num", "merger"}

\* The source document with this _id.
SourceDoc(id) ==
    [_id |-> id, subject |-> [ref |-> id], predicate |-> "new",
     cleaned |-> FALSE, mapped |-> FALSE]

\* A document stored in the destination by an earlier run, its subject a
\* resolved node payload.
StoredDoc(id) ==
    [_id |-> id, subject |-> [node |-> id], predicate |-> "old",
     cleaned |-> TRUE, mapped |-> TRUE]

\* cleaner(doc), and mapper.process on one document
Clean(doc) == [doc EXCEPT !.cleaned = TRUE]
Map(doc) == [doc EXCEPT !.mapped = TRUE]

\* lines 190-196: the documents of the source whose _id is in ids, cleaned
\* if a cleaner is given, then mapped.
Transformed(id, cleaner) ==
    Map(IF cleaner THEN Clean(SourceDoc(id)) ELSE SourceDoc(id))

Process(ids, source, cleaner) ==
    LET found == SelectSeq(ids, LAMBDA i : i \in source)
    IN [k \in 1..Len(found) |-> Transformed(found[k], cleaner)]

\* destination_backend.mget_from_ids: the stored documents with these _ids
MgetFromIds(dest, ids) ==
    LET found == SelectSeq(ids, LAMBDA i : i \in DOMAIN dest)
    IN [k \in 1..Len(found) |-> dest[found[k]]]

\* Mutant: the stored document's subject is taken, not the document.
node_edge_merge_struct_subject(edge_document, node_document) ==
    [edge_document EXCEPT !.subject = node_document.subject]

\* lines 228-230: node_edge_merge_struct
node_edge_merge_struct(edge_document, node_document) ==
    [edge_document EXCEPT !.subject = node_document]

\* lines 198-203: every stored document is merged into the new document
\* with its _id.
MergeStored(docs, stored_docs) ==
    [k \in 1..Len(docs) |->
        IF \E m \in 1..Len(stored_docs) : stored_docs[m]._id = docs[k]._id
        THEN node_edge_merge_struct(
                 docs[k],
                 stored_docs[CHOOSE m \in 1..Len(stored_docs) :
                                 stored_docs[m]._id = docs[k]._id])
        ELSE docs[k]]

\* Mutant: the update writes every document, whatever upsert says.
Writable_all(dest, docs, upsert) == 1..Len(docs)

\* destination_backend.update(docs, upsert): a document is written when its
\* _id is stored already, or when upsert is set.
Writable(dest, docs, upsert) ==
    { k \in 1..Len(docs) : upsert \/ docs[k]._id \in DOMAIN dest }

Update(dest, docs, upsert) ==
    LET w == Writable(dest, docs, upsert)
        ids == { docs[k]._id : k \in w }
    IN [i \in DOMAIN dest \cup ids |->
           IF i \in ids THEN docs[CHOOSE k \in w : docs[k]._id = i]
           ELSE dest[i]]

\* The lists of distinct ids over 1..n, of length 1..n.
IdLists(n) ==
    { l \in UNION { [1..k -> 1..n] : k \in 1..n } :
        \A a, b \in 1..Len(l) : a # b => l[a] # l[b] }

\* Largest _id of the worker's collections.
MaxDocs == 2

WkInit ==
    /\ wk_pc = "call"
    /\ wk_names \in SUBSET UnboundNames
    /\ wk_ids \in IdLists(MaxDocs)
    /\ wk_source \in SUBSET (1..MaxDocs)
    /\ \E present \in SUBSET (1..MaxDocs) :
           wk_dest = [i \in present |-> StoredDoc(i)]
    /\ wk_cleaner \in BOOLEAN
    /\ wk_upsert \in BOOLEAN
    /\ wk_docs = [bound |-> FALSE]
    /\ wk_stored = <<>>
    /\ wk_exc = NoError
    /\ wk_artifacts = {}
    /\ wk_out = [kind |-> "running"]
    /\ MgIdle
    /\ IxIdle
    /\ LdIdle
    /\ PpIdle
    /\ TkIdle
    /\ CtIdle

\* An exception raised in the try block, at this step.
Caught(step) == [kind |-> "exc", step |-> step]

\* lines 185-193: the stores are opened; the cursor and the cleaning map
\* are lazy. get_src_db is not bound by the module: NameError.
WkOpen ==
    /\ wk_pc = "call"
    /\ IF "get_src_db" \notin wk_names
       THEN /\ wk_pc' = "except"
            /\ wk_exc' = [kind |-> "NameError", step |-> "open"]
       ELSE \E ok \in BOOLEAN :
               IF ok THEN wk_pc' = "opened" /\ UNCHANGED wk_exc
               ELSE wk_pc' = "except" /\ wk_exc' = Caught("open")
    /\ UNCHANGED NotWk
    /\ UNCHANGED <<wk_names, wk_ids, wk_source, wk_dest, wk_cleaner,
                   wk_upsert, wk_docs, wk_stored, wk_artifacts, wk_out>>

\* line 194: mapper.load()
WkLoad ==
    /\ wk_pc = "opened"
    /\ \E ok \in BOOLEAN :
          IF ok THEN wk_pc' = "loaded" /\ UNCHANGED wk_exc
          ELSE wk_pc' = "except" /\ wk_exc' = Caught("load")
    /\ UNCHANGED NotWk
    /\ UNCHANGED <<wk_names, wk_ids, wk_source, wk_dest, wk_cleaner,
                   wk_upsert, wk_docs, wk_stored, wk_artifacts, wk_out>>

\* line 196: docs = list(mapper.process(cur)) runs the fetch, the cleaning
\* and the mapping; when one of them raises, docs is not assigned.
WkProcess ==
    /\ wk_pc = "loaded"
    /\ \E step \in {"ok", "fetch", "clean", "map"} :
          IF step = "ok"
          THEN /\ wk_docs' = [bound |-> TRUE,
                              list |-> Process(wk_ids, wk_source, wk_cleaner)]
               /\ wk_pc' = "processed"
               /\ UNCHANGED wk_exc
          ELSE /\ wk_pc' = "except"
               /\ wk_exc' = Caught(step)
               /\ UNCHANGED wk_docs
    /\ UNCHANGED NotWk
    /\ UNCHANGED <<wk_names, wk_ids, wk_source, wk_dest, wk_cleaner,
                   wk_upsert, wk_stored, wk_artifacts, wk_out>>

\* line 197: stored_docs = destination_backend.mget_from_ids(...)
WkStored ==
    /\ wk_pc = "processed"
    /\ \E ok \in BOOLEAN :
          IF ok
          THEN /\ wk_stored' =
                      MgetFromIds(wk_dest, [k \in 1..Len(wk_docs.list) |->
                                                wk_docs.list[k]._id])
               /\ wk_pc' = "fetched"
               /\ UNCHANGED wk_exc
          ELSE /\ wk_pc' = "except"
               /\ wk_exc' = Caught("stored")
               /\ UNCHANGED wk_stored
    /\ UNCHANGED NotWk
    /\ UNCHANGED <<wk_names, wk_ids, wk_source, wk_dest, wk_cleaner,
                   wk_upsert, wk_docs, wk_artifacts, wk_out>>

\* lines 198-203: the merge of the stored documents
WkMerge ==
    /\ wk_pc = "fetched"
    /\ wk_docs' = [bound |-> TRUE,
                   list |-> MergeStored(wk_docs.list, wk_stored)]
    /\ wk_pc' = "merged"
    /\ UNCHANGED NotWk
    /\ UNCHANGED <<wk_names, wk_ids, wk_source, wk_dest, wk_cleaner,
                   wk_upsert, wk_stored, wk_exc, wk_artifacts, wk_out>>

\* lines 205-206: cnt = destination_backend.update(docs, upsert=upsert)
WkWrite ==
    /\ wk_pc = "merged"
    /\ \E ok \in BOOLEAN :
          IF ok
          THEN /\ wk_dest' = Update(wk_dest, wk_docs.list, wk_upsert)
               /\ wk_out' =
                      [kind |-> "return",
                       cnt |-> Cardinality(Writable(wk_dest, wk_docs.list,
                                                    wk_upsert))]
               /\ wk_pc' = "returned"
               /\ UNCHANGED wk_exc
          ELSE /\ wk_pc' = "except"
               /\ wk_exc' = Caught("write")
               /\ UNCHANGED <<wk_dest, wk_out>>
    /\ UNCHANGED NotWk
    /\ UNCHANGED <<wk_names, wk_ids, wk_source, wk_cleaner, wk_upsert,
                   wk_docs, wk_stored, wk_artifacts>>

\* lines 207-225: the handler. The log name needs batch_num (line 208) and
\* the log line needs merger (line 214): NameError when unbound, before any
\* file is written. Then the exception and the ids are pickled; pickling
\* docs raises UnboundLocalError when docs was never assigned.
WkExcept ==
    /\ wk_pc = "except"
    /\ IF "batch_num" \notin wk_names \/ "merger" \notin wk_names
       THEN /\ wk_artifacts' = {}
            /\ wk_out' = [kind |-> "raise",
                          exc |-> [kind |-> "NameError", step |-> "handler"]]
       ELSE IF ~wk_docs.bound
       THEN /\ wk_artifacts' = {"exc", "ids"}
            /\ wk_out' = [kind |-> "raise",
                          exc |-> [kind |-> "UnboundLocalError",
                                   step |-> "handler"]]
       ELSE /\ wk_artifacts' = {"exc", "ids", "docs"}
            /\ wk_out' = [kind |-> "raise", exc |-> wk_exc]
    /\ wk_pc' = "raised"
    /\ UNCHANGED NotWk
    /\ UNCHANGED <<wk_names, wk_ids, wk_source, wk_dest, wk_cleaner,
                   wk_upsert, wk_docs, wk_stored, wk_exc>>

WkNext ==
    \/ WkOpen
    \/ WkLoad
    \/ WkProcess
    \/ WkStored
    \/ WkMerge
    \/ WkWrite
    \/ WkExcept

SpecWorker == WkInit /\ [][WkNext]_vars

\* --------------------------------------- node_edge_merger_worker: claims
\* C9 (as claimed): whenever the worker fails, at whichever step, the three
\* diagnostic artifacts (exception, id list, document batch) have been
\* written under the per-batch log name before the original exception is
\* re-raised to the caller.
C9_ArtifactsBeforeReraise ==
    wk_pc = "raised" =>
        /\ wk_artifacts = {"exc", "ids", "docs"}
        /\ wk_out.exc = wk_exc

WkStoredFor(id) ==
    wk_stored[CHOOSE m \in 1..Len(wk_stored) : wk_stored[m]._id = id]
WkHasStored(id) == \E m \in 1..Len(wk_stored) : wk_stored[m]._id = id
WkWritten == wk_pc = "returned"

C11_UpdateOnlyNeverCreates ==
    [][~wk_upsert =>
          /\ DOMAIN wk_dest' = DOMAIN wk_dest
          /\ (wk_pc' = "returned" /\ wk_pc # "returned") =>
                wk_out'.cnt =
                    Cardinality({ k \in 1..Len(wk_docs.list) :
                                    wk_docs.list[k]._id \in DOMAIN wk_dest })
      ]_vars

\* C11 witness: an update-only run returned after processing a document
\* whose id is absent from the destination and one whose id is present.
C11_Witness ==
    /\ wk_pc = "returned"
    /\ ~wk_upsert
    /\ \E k \in 1..Len(wk_docs.list) : wk_docs.list[k]._id \notin DOMAIN wk_dest
    /\ \E k \in 1..Len(wk_docs.list) : wk_docs.list[k]._id \in DOMAIN wk_dest
    /\ wk_out.cnt = 1

\* ------------------------------------- read_jsonl and load_merged_edges
\* The length of read_jsonl's buffer (NODE_BUFFER_SIZE, 4096 in the source)
\* and of load_merged_edges's buffer (EDGE_BUFFER_SIZE, 2048 in the source),
\* scaled down so that files of a few records cross them.
NODE_BUFFER_SIZE == 3
EDGE_BUFFER_SIZE == 2
\* Longest nodes.jsonl and edges.jsonl explored.
MaxNodes == 2
MaxEdges == 5

\* str(index), for a non-negative index.
Digit(n) == <<"0", "1", "2", "3", "4", "5", "6", "7", "8", "9">>[n + 1]
RECURSIVE Str(_)
Str(n) == IF n < 10 THEN Digit(n) ELSE Str(n \div 10) \o Digit(n % 10)

\* doc[key] = val on a dict
With(doc, key, val) ==
    [x \in DOMAIN doc \cup {key} |-> IF x = key THEN val ELSE doc[x]]

\* The sequences over a set, of length 0..n.
SeqsUpTo(S, n) == UNION { [1..k -> S] : k \in 0..n }

\* The records a nodes.jsonl line can hold: with an id, or without one.
NodeRecords ==
    { [id |-> "a", name |-> "A"], [id |-> "b", name |-> "B"],
      [name |-> "C"] }

\* The records an edges.jsonl line can hold; none has an id field. "0" is
\* what read_jsonl assigns to a first record that has no id.
EdgeRecords ==
    { [subject |-> "a", object |-> "b", predicate |-> "p"],
      [subject |-> "b", object |-> "b", predicate |-> "q"],
      [subject |-> "0", object |-> "a", predicate |-> "r"] }

LdInit ==
    /\ ld_pc = "nodes"
    /\ ld_nodes_file \in SeqsUpTo(NodeRecords, MaxNodes)
    /\ ld_edges_file \in SeqsUpTo(EdgeRecords, MaxEdges)
    /\ ld_index = 0
    /\ ld_rbuffer = <<>>
    /\ ld_ryield = <<>>
    /\ ld_reof = FALSE
    /\ ld_read = [nodes |-> <<>>, edges |-> <<>>]
    /\ ld_nodes = <<>>
    /\ ld_buffer = <<>>
    /\ ld_out = <<>>
    /\ ld_exc = NoError
    /\ MgIdle
    /\ IxIdle
    /\ WkIdle
    /\ PpIdle
    /\ TkIdle
    /\ CtIdle

LdRunning == ld_pc \in {"nodes", "edges"}
LdTerminal == ld_pc \in {"done", "raised"}

\* The file the running read_jsonl generator reads.
LdFile == IF ld_pc = "nodes" THEN ld_nodes_file ELSE ld_edges_file

\* line 39: doc["_id"] = doc["id"] if "id" in doc else str(index)
AssignId(doc, index) ==
    With(doc, "_id", IF "id" \in DOMAIN doc THEN doc.id ELSE Str(index))

\* read_jsonl has nothing more to yield.
LdExhausted == ld_reof /\ ld_ryield = <<>>

\* lines 36-45: the generator, asked for its next record with none left to
\* yield, reads one more line; a full buffer is yielded from.
LdRead ==
    /\ LdRunning
    /\ ld_ryield = <<>>
    /\ ld_index < Len(LdFile)
    /\ LET buffer == Append(ld_rbuffer,
                         AssignId(LdFile[ld_index + 1], ld_index))
       IN IF Len(buffer) = NODE_BUFFER_SIZE
          THEN ld_ryield' = buffer /\ ld_rbuffer' = <<>>
          ELSE ld_ryield' = <<>> /\ ld_rbuffer' = buffer
    /\ ld_index' = ld_index + 1
    /\ UNCHANGED NotLd
    /\ UNCHANGED <<ld_pc, ld_nodes_file, ld_edges_file, ld_reof, ld_read,
                   ld_nodes, ld_buffer, ld_out, ld_exc>>

\* lines 47-48: at the end of the file, what is left in the buffer is
\* yielded from.
LdReadEnd ==
    /\ LdRunning
    /\ ld_ryield = <<>>
    /\ ld_index = Len(LdFile)
    /\ ~ld_reof
    /\ ld_ryield' = ld_rbuffer
    /\ ld_rbuffer' = <<>>
    /\ ld_reof' = TRUE
    /\ UNCHANGED NotLd
    /\ UNCHANGED <<ld_pc, ld_nodes_file, ld_edges_file, ld_index, ld_read,
                   ld_nodes, ld_buffer, ld_out, ld_exc>>

\* Mutant: a missing key gives a stub record, as a dict with a default.
Lookup_default(nodes, id) ==
    IF id \in DOMAIN nodes THEN [found |-> TRUE, doc |-> nodes[id]]
    ELSE [found |-> TRUE, doc |-> [id |-> id]]

\* nodes[id], lines 79-80: the record stored under the key, or KeyError.
Lookup(nodes, id) ==
    IF id \in DOMAIN nodes THEN [found |-> TRUE, doc |-> nodes[id]]
    ELSE [found |-> FALSE, exc |-> [kind |-> "KeyError", key |-> id]]

\* Mutant: the two node records are stored the wrong way round.
MergeEdge_swapped(edge, subject_node, object_node) ==
    [edge EXCEPT !.subject = object_node, !.object = subject_node]

\* lines 79-80: edge["subject"] and edge["object"] become the node records.
MergeEdge(edge, subject_node, object_node) ==
    [edge EXCEPT !.subject = subject_node, !.object = object_node]

\* line 72: the dict comprehension takes the next record of load_nodes and
\* stores it under node['id']; a record without that key gives KeyError.
LdNode ==
    /\ ld_pc = "nodes"
    /\ ld_ryield # <<>>
    /\ LET node == Head(ld_ryield)
       IN /\ ld_read' = [ld_read EXCEPT !.nodes = Append(@, node)]
          /\ IF "id" \in DOMAIN node
             THEN /\ ld_nodes' = With(ld_nodes, node.id, node)
                  /\ UNCHANGED <<ld_pc, ld_exc>>
             ELSE /\ ld_pc' = "raised"
                  /\ ld_exc' = [kind |-> "KeyError", key |-> "id"]
                  /\ UNCHANGED ld_nodes
    /\ ld_ryield' = Tail(ld_ryield)
    /\ UNCHANGED NotLd
    /\ UNCHANGED <<ld_nodes_file, ld_edges_file, ld_index, ld_rbuffer,
                   ld_reof, ld_buffer, ld_out>>

\* lines 72-75: load_nodes is exhausted; load_edges starts a new read_jsonl
\* generator on the edge file.
LdNodesEnd ==
    /\ ld_pc = "nodes"
    /\ LdExhausted
    /\ ld_pc' = "edges"
    /\ ld_index' = 0
    /\ ld_reof' = FALSE
    /\ UNCHANGED NotLd
    /\ UNCHANGED <<ld_nodes_file, ld_edges_file, ld_rbuffer, ld_ryield,
                   ld_read, ld_nodes, ld_buffer, ld_out, ld_exc>>

\* lines 75-86: the next edge is joined with its two nodes and buffered; a
\* full buffer is yielded from.
LdEdge ==
    /\ ld_pc = "edges"
    /\ ld_ryield # <<>>
    /\ LET edge == Head(ld_ryield)
           subject == Lookup(ld_nodes, edge.subject)
           object == Lookup(ld_nodes, edge.object)
       IN /\ ld_read' = [ld_read EXCEPT !.edges = Append(@, edge)]
          /\ IF ~subject.found \/ ~object.found
             THEN /\ ld_pc' = "raised"
                  /\ ld_exc' = IF ~subject.found THEN subject.exc
                               ELSE object.exc
                  /\ UNCHANGED <<ld_buffer, ld_out>>
             ELSE LET buffer ==
                          Append(ld_buffer,
                                 MergeEdge(edge, subject.doc, object.doc))
                  IN /\ IF Len(buffer) = EDGE_BUFFER_SIZE
                        THEN /\ ld_out' = ld_out \o buffer
                             /\ ld_buffer' = <<>>
                        ELSE /\ ld_buffer' = buffer
                             /\ UNCHANGED ld_out
                     /\ UNCHANGED <<ld_pc, ld_exc>>
    /\ ld_ryield' = Tail(ld_ryield)
    /\ UNCHANGED NotLd
    /\ UNCHANGED <<ld_nodes_file, ld_edges_file, ld_index, ld_rbuffer,
                   ld_reof, ld_nodes>>

\* lines 89-90: load_edges is exhausted; what is left in the buffer is
\* yielded from, and the generator ends.
LdEdgesEnd ==
    /\ ld_pc = "edges"
    /\ LdExhausted
    /\ ld_out' = ld_out \o ld_buffer
    /\ ld_buffer' = <<>>
    /\ ld_pc' = "done"
    /\ UNCHANGED NotLd
    /\ UNCHANGED <<ld_nodes_file, ld_edges_file, ld_index, ld_rbuffer,
                   ld_ryield, ld_reof, ld_read, ld_nodes, ld_exc>>

LdNext ==
    \/ LdRead
    \/ LdReadEnd
    \/ LdNode
    \/ LdNodesEnd
    \/ LdEdge
    \/ LdEdgesEnd

SpecLoad == LdInit /\ [][LdNext]_vars

\* ------------------------------ read_jsonl and load_merged_edges: claims
\* The node records that have an id, and the ids they have.
LdWithId == { i \in 1..Len(ld_nodes_file) : "id" \in DOMAIN ld_nodes_file[i] }
LdNodeIds == { ld_nodes_file[i].id : i \in LdWithId }

\* The full node record an id refers to: the last record of the node file
\* with that id, as read_jsonl yields it.
LdNodeFor(id) ==
    LET i == CHOOSE i \in LdWithId :
                 /\ ld_nodes_file[i].id = id
                 /\ \A j \in LdWithId : ld_nodes_file[j].id = id => j <= i
    IN With(ld_nodes_file[i], "_id", id)

\* The edges whose subject or object is not the id of a node record.
LdDangling ==
    { k \in 1..Len(ld_edges_file) :
        \/ ld_edges_file[k].subject \notin LdNodeIds
        \/ ld_edges_file[k].object \notin LdNodeIds }

\* The k-th edge as read_jsonl yields it, with subject and object replaced
\* by the full node records.
LdMerged(k) ==
    LET e == With(ld_edges_file[k], "_id", Str(k - 1))
    IN [e EXCEPT !.subject = LdNodeFor(ld_edges_file[k].subject),
                 !.object = LdNodeFor(ld_edges_file[k].object)]

\* C13: for every input of M edges whose subject and object all are ids of
\* node records (every node record having an id), load_merged_edges ends
\* normally having yielded exactly M documents in the order of the edge
\* file, the k-th being the k-th edge with subject and object replaced by
\* the full node records, whatever M is relative to the buffer sizes; and
\* what it has yielded so far is always a prefix of that sequence.
C13_MergedEdgesInOrder ==
    (LdWithId = 1..Len(ld_nodes_file) /\ LdDangling = {}) =>
        /\ ld_pc # "raised"
        /\ LdTerminal \/ ENABLED LdNext
        /\ Len(ld_out) <= Len(ld_edges_file)
        /\ \A k \in 1..Len(ld_out) : ld_out[k] = LdMerged(k)
        /\ ld_pc = "done" => Len(ld_out) = Len(ld_edges_file)

\* C13 witness: load_merged_edges ended normally after yielding more edges
\* than either buffer holds, their number not a multiple of the edge buffer.
C13_Witness ==
    /\ ld_pc = "done"
    /\ Len(ld_out) > NODE_BUFFER_SIZE
    /\ Len(ld_out) > EDGE_BUFFER_SIZE
    /\ Len(ld_out) % EDGE_BUFFER_SIZE # 0

\* The first edge with a dangling reference.
LdFirstDangling == CHOOSE k \in LdDangling : \A m \in LdDangling : k <= m

\* C14: if some edge's subject or object is not the id of a loaded node,
\* iterating load_merged_edges never ends normally; it goes on until it
\* fails with a KeyError, and it never yields a merged document for the
\* first such edge or for any edge after it.
C14_DanglingReferenceFails ==
    LdDangling # {} =>
        /\ ld_pc # "done"
        /\ LdTerminal \/ ENABLED LdNext
        /\ LdTerminal => ld_exc.kind = "KeyError"
        /\ Len(ld_out) < LdFirstDangling

\* C14 witness: load_merged_edges failed on a dangling reference after it
\* had yielded some documents, with a merged edge still in its buffer.
C14_Witness ==
    /\ ld_pc = "raised"
    /\ ld_exc.kind = "KeyError"
    /\ ld_exc.key # "id"
    /\ ld_out # <<>>
    /\ ld_buffer # <<>>

\* C25: when load_merged_edges fails on a dangling reference at the k-th
\* edge, the consumer has received the merged documents of all k-1
\* preceding edges before the failure is raised: output buffering never
\* withholds or loses an already merged edge.
C25_FailureAfterPrecedingDelivered ==
    (ld_pc = "raised" /\ ld_read.edges # <<>>) =>
        /\ Len(ld_out) = Len(ld_read.edges) - 1
        /\ \A k \in 1..Len(ld_out) : ld_out[k] = LdMerged(k)
        /\ ld_buffer = <<>>

\* The identifier read_jsonl assigns to the k-th record of a file.
LdAssigned(file, k) ==
    IF "id" \in DOMAIN file[k] THEN file[k].id ELSE Str(k - 1)

\* What read_jsonl has yielded of a file is the file's records so far, in
\* file order, each with its assigned identifier.
LdReadInOrder(read, file) ==
    /\ Len(read) <= Len(file)
    /\ \A k \in 1..Len(read) :
          read[k] = With(file[k], "_id", LdAssigned(file, k))

\* C15 (as claimed): read_jsonl yields every record of the file exactly
\* once and in file order, each with the identifier equal to its id field
\* when present and otherwise to its zero-based position in the file as a
\* string, wherever the buffer boundaries fall; and a node record lacking
\* id is usable by load_merged_edges as a join target under that assigned
\* identifier: when some edge refers to such a node and every edge refers
\* to assigned identifiers, load_merged_edges does not fail.
C15_AssignedIdIsJoinTarget ==
    /\ LdReadInOrder(ld_read.nodes, ld_nodes_file)
    /\ LdReadInOrder(ld_read.edges, ld_edges_file)
    /\ ld_pc \in {"edges", "done"} => Len(ld_read.nodes) = Len(ld_nodes_file)
    /\ ld_pc = "done" => Len(ld_read.edges) = Len(ld_edges_file)
    /\ LET assigned == { LdAssigned(ld_nodes_file, k) :
                           k \in 1..Len(ld_nodes_file) }
           without == { LdAssigned(ld_nodes_file, k) :
                          k \in (1..Len(ld_nodes_file)) \ LdWithId }
       IN (/\ \A k \in 1..Len(ld_edges_file) :
                 /\ ld_edges_file[k].subject \in assigned
                 /\ ld_edges_file[k].object \in assigned
           /\ \E k \in 1..Len(ld_edges_file) :
                 ld_edges_file[k].subject \in without)
          => ld_pc # "raised"

\* ------------------------------- remove_biolink_prefix and get_ancestors
\* Longest text explored, in pieces; longest list of texts; and the number
\* of get_ancestors calls explored on one cache.
MaxPieces == 3
MaxItems == 2
MaxCalls == 4

\* text[8:], line 7
PrefixLen == 8

\* "biolink:", as its characters
Prefix == <<"b", "i", "o", "l", "i", "n", "k", ":">>

\* The pieces texts are made of: the prefix, a proper start of it, a name
\* and a colon.
Pieces == { Prefix, <<"b", "i", "o">>, <<"X">>, <<":">> }

\* The texts of at most n pieces.
RECURSIVE Texts(_)
Texts(n) ==
    IF n = 0 THEN { <<>> }
    ELSE Texts(n - 1) \cup { t \o q : t \in Texts(n - 1), q \in Pieces }

\* A str, and a list of str.
StrOf(text) == [kind |-> "str", text |-> text]
ListOf(items) == [kind |-> "list", items |-> items]

\* text.startswith(prefix)
startswith(text, prefix) ==
    /\ Len(text) >= Len(prefix)
    /\ SubSeq(text, 1, Len(prefix)) = prefix

\* Mutant: the colon is left in place.
remove_single_biolink_prefix_colon(text) ==
    IF startswith(text, Prefix)
    THEN SubSeq(text, PrefixLen, Len(text))
    ELSE text

\* lines 5-8: remove_single_biolink_prefix
remove_single_biolink_prefix(text) ==
    IF startswith(text, Prefix)
    THEN SubSeq(text, PrefixLen + 1, Len(text))
    ELSE text

\* lines 10-14: remove_biolink_prefix
remove_biolink_prefix(target) ==
    IF target.kind = "str"
    THEN StrOf(remove_single_biolink_prefix(target.text))
    ELSE ListOf([k \in 1..Len(target.items) |->
                    remove_single_biolink_prefix(target.items[k])])

\* The texts the lists are made of: without the prefix, with a proper
\* start of it, with it, and with it twice.
ItemTexts ==
    { <<>>, <<"X">>, <<"b", "i", "o">> \o <<"X">>, Prefix,
      Prefix \o <<"X">>, Prefix \o Prefix, Prefix \o Prefix \o <<"X">> }

\* The targets remove_biolink_prefix is explored on.
Targets ==
    { StrOf(t) : t \in Texts(MaxPieces) }
        \cup { ListOf(l) : l \in SeqsUpTo(ItemTexts, MaxItems) }

PpStripInit ==
    /\ pp_target \in Targets
    /\ pp_results = <<>>
    /\ pp_cache = <<>>
    /\ pp_lookups = <<>>
    /\ pp_log = <<>>
    /\ MgIdle
    /\ IxIdle
    /\ WkIdle
    /\ LdIdle
    /\ TkIdle
    /\ CtIdle

\* remove_biolink_prefix is called on the target, then on what it returned.
PpStrip ==
    /\ Len(pp_results) < 2
    /\ pp_results' =
           Append(pp_results,
                  remove_biolink_prefix(IF pp_results = <<>> THEN pp_target
                                        ELSE pp_results[Len(pp_results)]))
    /\ UNCHANGED NotPp
    /\ UNCHANGED <<pp_target, pp_cache, pp_lookups, pp_log>>

SpecStrip == PpStripInit /\ [][PpStrip]_vars

\* ------------------------------------------ remove_biolink_prefix: claims
\* The texts of a target and of a result, a str counting as one text.
PpTexts(v) == IF v.kind = "str" THEN <<v.text>> ELSE v.items

\* C17 (as claimed): prefix stripping is idempotent: for every string s,
\* remove_biolink_prefix(remove_biolink_prefix(s)) equals
\* remove_biolink_prefix(s), with "biolink:X" giving "X" and a string
\* without the prefix returned unchanged; element-wise for a list.
C17_StripIdempotent ==
    /\ Len(pp_results) = 2 => pp_results[2] = pp_results[1]
    /\ Len(pp_results) >= 1 =>
          \A k \in 1..Len(PpTexts(pp_target)) :
              LET s == PpTexts(pp_target)[k]
                  r == PpTexts(pp_results[1])[k]
              IN IF startswith(s, Prefix) THEN Prefix \o r = s ELSE r = s

\* C17 (amended): remove_biolink_prefix removes one leading "biolink:":
\* "biolink:X" gives "X", a string without the prefix is returned
\* unchanged, a str gives a str and a list gives a list of the same length,
\* element-wise. A second application returns the same as the first for
\* every string except those where the prefix is followed by the prefix
\* again, from which it removes the second prefix as well.
C17_StripsOnePrefix ==
    /\ Len(pp_results) >= 1 =>
          /\ pp_results[1].kind = pp_target.kind
          /\ Len(PpTexts(pp_results[1])) = Len(PpTexts(pp_target))
          /\ \A k \in 1..Len(PpTexts(pp_target)) :
                LET s == PpTexts(pp_target)[k]
                    r == PpTexts(pp_results[1])[k]
                IN IF startswith(s, Prefix) THEN Prefix \o r = s ELSE r = s
    /\ Len(pp_results) = 2 =>
          /\ pp_results[2].kind = pp_target.kind
          /\ Len(PpTexts(pp_results[2])) = Len(PpTexts(pp_target))
          /\ \A k \in 1..Len(PpTexts(pp_target)) :
                LET s == PpTexts(pp_target)[k]
                    r == PpTexts(pp_results[1])[k]
                    rr == PpTexts(pp_results[2])[k]
                IN IF startswith(s, Prefix \o Prefix)
                   THEN Prefix \o rr = r
                   ELSE rr = r

\* C17 witness: a list of a prefixed text, stripped to "X", and a text with
\* the prefix twice, stripped twice.
C17_Witness ==
    /\ pp_target = ListOf(<<Prefix \o <<"X">>, Prefix \o Prefix>>)
    /\ Len(pp_results) = 2
    /\ pp_results[1] = ListOf(<<<<"X">>, Prefix>>)
    /\ pp_results[2] = ListOf(<<<<"X">>, <<>>>>)

\* ------------------------------------------------------- get_ancestors
\* The phrases get_ancestors is called with.
Phrases == {"biolink:Gene", "biolink:affects"}

\* What biolink.get_ancestors(phrase, formatted=True) can answer: None, an
\* empty list, or a list of names, prefixed or not.
OntologyAnswers ==
    { [kind |-> "None"],
      ListOf(<<>>),
      ListOf(<<Prefix \o <<"X">>>>),
      ListOf(<<Prefix \o <<"X">>, <<"X">>>>) }

\* Python truth of what the ontology answered
NonEmpty(ancestors) == ancestors.kind = "list" /\ ancestors.items # <<>>

\* lines 22-24: a non-empty answer has the prefix of each item removed.
Stripped(ancestors) ==
    IF NonEmpty(ancestors)
    THEN ListOf([k \in 1..Len(ancestors.items) |->
                    remove_biolink_prefix(StrOf(ancestors.items[k])).text])
    ELSE ancestors

\* Mutant: only a non-empty result is stored in the cache.
CacheStore_nonempty(cache, phrase, ancestors) ==
    IF NonEmpty(ancestors) THEN With(cache, phrase, ancestors) ELSE cache

\* line 26: cache[phrase] = ancestors
CacheStore(cache, phrase, ancestors) == With(cache, phrase, ancestors)

PpAncestorsInit ==
    /\ pp_target = StrOf(<<>>)
    /\ pp_results = <<>>
    /\ pp_cache = <<>>
    /\ pp_lookups = [p \in Phrases |-> 0]
    /\ pp_log = <<>>
    /\ MgIdle
    /\ IxIdle
    /\ WkIdle
    /\ LdIdle
    /\ TkIdle
    /\ CtIdle

\* lines 16-28: get_ancestors(phrase, cache), on the one cache
PpGetAncestors(phrase) ==
    /\ Len(pp_log) < MaxCalls
    /\ IF phrase \in DOMAIN pp_cache
       THEN /\ pp_log' = Append(pp_log, [phrase |-> phrase,
                                         result |-> pp_cache[phrase]])
            /\ UNCHANGED <<pp_cache, pp_lookups>>
       ELSE \E answer \in OntologyAnswers :
               LET ancestors == Stripped(answer)
               IN /\ pp_lookups' = [pp_lookups EXCEPT ![phrase] = @ + 1]
                  /\ pp_cache' = CacheStore(pp_cache, phrase, ancestors)
                  /\ pp_log' = Append(pp_log, [phrase |-> phrase,
                                               result |-> ancestors])
    /\ UNCHANGED NotPp
    /\ UNCHANGED <<pp_target, pp_results>>

PpAncestorsNext == \E phrase \in Phrases : PpGetAncestors(phrase)

SpecAncestors == PpAncestorsInit /\ [][PpAncestorsNext]_vars

\* ------------------------------------------------ get_ancestors: claims
\* C16: over any sequence of get_ancestors calls that share one cache, the
\* ontology lookup is invoked at most once per distinct phrase (on the
\* first call with that phrase), and every later call with the same phrase
\* returns the same result as the first, including when the result is an
\* empty list or None.
C16_OneLookupPerPhrase ==
    /\ \A p \in Phrases :
          pp_lookups[p] =
              IF \E i \in 1..Len(pp_log) : pp_log[i].phrase = p THEN 1 ELSE 0
    /\ \A i, j \in 1..Len(pp_log) :
          (i < j /\ pp_log[i].phrase = pp_log[j].phrase) =>
              pp_log[j].result = pp_log[i].result

\* C16 witness: one phrase resolved to an empty list and another to None,
\* and each was asked for again.
C16_Witness ==
    /\ Len(pp_log) = 4
    /\ pp_log[1].phrase = pp_log[3].phrase
    /\ pp_log[2].phrase = pp_log[4].phrase
    /\ pp_log[1].phrase # pp_log[2].phrase
    /\ pp_log[3].result = ListOf(<<>>)
    /\ pp_log[4].result.kind = "None"

\* ---------------------------------- dispatch and RTXKG2IndexingTask
\* Longest id batch handed to dispatch, and largest _id of the edge
\* collection.
MaxTaskIds == 2
MaxEdgeId == 3

\* An id of a batch: its key, and whether it is longer than the 512
\* characters the index accepts.
TaskIds == [key : 1..MaxEdgeId, long : BOOLEAN]

\* _validate_ids, line 225: the ids that are short enough, and the others.
ValidIds(ids) == SelectSeq(ids, LAMBDA i : ~i.long)
InvalidIds(ids) == SelectSeq(ids, LAMBDA i : i.long)

\* lines 195-198: what dispatch hands to the task are functions that create
\* a client (functools.partial objects), not clients.
Factory(of) == [kind |-> "factory", of |-> of]

\* An attribute of a value that is looked up as a client's method: a
\* functools.partial has neither find nor mindex.
HasMethods(value) == value.kind = "client"

TkInit ==
    /\ tk_pc = "call"
    /\ tk_batch \in SeqsUpTo(TaskIds, MaxTaskIds)
    /\ tk_edges \in SUBSET (1..MaxEdgeId)
    /\ tk_ids = <<>>
    /\ tk_invalid_ids = <<>>
    /\ tk_backend = [bound |-> FALSE]
    /\ tk_queried = None
    /\ tk_out = [kind |-> "running"]
    /\ MgIdle
    /\ IxIdle
    /\ WkIdle
    /\ LdIdle
    /\ PpIdle
    /\ CtIdle

\* lines 186-203 and 214-236: dispatch builds the task; __init__ validates
\* the ids and stores the three functions, the edge one twice.
TkConstruct ==
    /\ tk_pc = "call"
    /\ tk_ids' = ValidIds(tk_batch)
    /\ tk_invalid_ids' = InvalidIds(tk_batch)
    /\ tk_backend' = [bound |-> TRUE,
                      es |-> Factory("es"),
                      edge_mongo |-> Factory("edge_mongo"),
                      node_mongo |-> Factory("edge_mongo")]
    /\ tk_pc' = "constructed"
    /\ UNCHANGED NotTk
    /\ UNCHANGED <<tk_batch, tk_edges, tk_queried, tk_out>>

\* lines 238-253: index(), reached through IndexingTask.dispatch. The
\* doc_feeder generator is created but not started; self.backend.es.mindex
\* is looked up on the function that creates the client: AttributeError.
\* On a client, mindex would run the query and index what it finds.
TkIndex ==
    /\ tk_pc = "constructed"
    /\ IF HasMethods(tk_backend.es) /\ HasMethods(tk_backend.edge_mongo)
       THEN /\ tk_queried' = Given(tk_ids)
            /\ tk_out' =
                   [kind |-> "return",
                    count |-> Len(SelectSeq(tk_ids,
                                            LAMBDA i : i.key \in tk_edges))
                              + Len(tk_invalid_ids)]
            /\ tk_pc' = "returned"
       ELSE /\ tk_out' = [kind |-> "raise",
                          exc |-> [kind |-> "AttributeError",
                                   name |-> "mindex"]]
            /\ tk_pc' = "raised"
            /\ UNCHANGED tk_queried
    /\ UNCHANGED NotTk
    /\ UNCHANGED <<tk_batch, tk_edges, tk_ids, tk_invalid_ids, tk_backend>>

TkNext ==
    \/ TkConstruct
    \/ TkIndex

SpecTask == TkInit /\ [][TkNext]_vars

\* --------------------------------- dispatch and RTXKG2IndexingTask: claims
\* C18 (as claimed): for every id batch, the Batch Index Worker ends by
\* returning a count; it has queried the edge collection with the valid ids
\* of the batch only, and the count is the number of documents indexed plus
\* the number of invalid ids, so that when every valid id exists in the
\* edge collection the count equals the length of the batch.
C18_CountReconcilesWithBatch ==
    tk_pc \in {"returned", "raised"} =>
        /\ tk_pc = "returned"
        /\ tk_queried = Given(ValidIds(tk_batch))
        /\ tk_out.count =
               Len(SelectSeq(tk_batch,
                             LAMBDA i : ~i.long /\ i.key \in tk_edges))
               + Len(InvalidIds(tk_batch))
        /\ (\A k \in 1..Len(tk_batch) :
                ~tk_batch[k].long => tk_batch[k].key \in tk_edges)
           => tk_out.count = Len(tk_batch)

\* ------------------------------------------- RTXKG2Indexer.__init__
\* The collections a target database can hold.
CollectionNames == {"edges", "nodes", "other"}

\* The attributes of self that lines 49-51 and lines 56-58 assign.
EdgeAttributes ==
    {"mongo_edge_client_args", "mongo_edge_database_name",
     "mongo_edge_collection_name"}
NodeAttributes ==
    {"mongo_node_client_args", "mongo_node_database_name",
     "mongo_node_collection_name"}

\* Calling an `async def` method without awaiting it (line 55) runs none of
\* its body and gives a coroutine object.
Coroutine(of) == [bound |-> TRUE, kind |-> "coroutine", of |-> of]

\* node_build.args, .dbs and .col exist on a _BuildBackend only.
IsBuildBackend(value) == value.kind = "_BuildBackend"

CtInit ==
    /\ ct_pc = "call"
    /\ ct_collections \in SUBSET CollectionNames
    /\ ct_node_collection \in CollectionNames
    /\ ct_index_name \in {[given |-> FALSE], [given |-> TRUE]}
    /\ ct_node_build = [bound |-> FALSE]
    /\ ct_self = {}
    /\ ct_out = [kind |-> "running"]
    /\ MgIdle
    /\ IxIdle
    /\ WkIdle
    /\ LdIdle
    /\ PpIdle
    /\ TkIdle

\* lines 45-51: the edge collection's connection parameters
CtEdgeBackend ==
    /\ ct_pc = "call"
    /\ ct_self' = ct_self \cup EdgeAttributes
    /\ ct_pc' = "edge"
    /\ UNCHANGED NotCt
    /\ UNCHANGED <<ct_collections, ct_node_collection, ct_index_name,
                   ct_node_build, ct_out>>

\* line 55: node_build = self._build_node_backend_client(build_doc), not
\* awaited: the body (lines 88-101), with its lookup of the collection and
\* its raise, does not run.
CtNodeBackend ==
    /\ ct_pc = "edge"
    /\ ct_node_build' = Coroutine("_build_node_backend_client")
    /\ ct_pc' = "node"
    /\ UNCHANGED NotCt
    /\ UNCHANGED <<ct_collections, ct_node_collection, ct_index_name,
                   ct_self, ct_out>>

\* lines 56-58: node_build.args on the coroutine object: AttributeError.
\* On a _BuildBackend the three node attributes would be assigned.
CtNodeAttributes ==
    /\ ct_pc = "node"
    /\ IF IsBuildBackend(ct_node_build)
       THEN /\ ct_self' = ct_self \cup NodeAttributes
            /\ ct_pc' = "destination"
            /\ UNCHANGED ct_out
       ELSE /\ ct_out' = [kind |-> "raise",
                          exc |-> [kind |-> "AttributeError",
                                   name |-> "args"]]
            /\ ct_pc' = "raised"
            /\ UNCHANGED ct_self
    /\ UNCHANGED NotCt
    /\ UNCHANGED <<ct_collections, ct_node_collection, ct_index_name,
                   ct_node_build>>

CtNext ==
    \/ CtEdgeBackend
    \/ CtNodeBackend
    \/ CtNodeAttributes

SpecConstruct == CtInit /\ [][CtNext]_vars

\* ------------------------------------ RTXKG2Indexer.__init__: claims
\* C20 (as claimed): constructing RTXKG2Indexer for a build whose
\* configured node collection is absent from the target database fails at
\* construction time with the missing-node-collection error; when the
\* collection is present, construction goes past line 58 with the node
\* collection's connection parameters assigned.
C20_MissingNodeCollectionFails ==
    /\ ct_pc \in {"raised", "destination"} =>
          IF ct_node_collection \in ct_collections
          THEN ct_pc = "destination" /\ NodeAttributes \subseteq ct_self
          ELSE /\ ct_pc = "raised"
               /\ ct_out.exc.kind = "MissingNodeCollectionError"
    /\ ct_pc \in {"raised", "destination"} \/ ENABLED CtNext

=============================================================================
